---------------------------- MODULE Spec2Model ----------------------------
(***************************************************************************)
(* The image compressor of src/src/App.jsx: one React component whose      *)
(* state is seven useState cells, one effect that starts a read/decode/    *)
(* encode run whenever the file, the quality or the maximum width changes, *)
(* and four event handlers.                                                *)
(*                                                                         *)
(* Numbers.  The quality is held in tenths (7 stands for the double        *)
(* nearest 0.7).  The two floating-point expressions of the source,        *)
(* Math.floor(newHeight * (maxWidth / newWidth)) and                       *)
(* Math.floor(imageQuality * 100), are computed as IEEE-754 binary64       *)
(* computes them, by exact integer error analysis (see DoubleFloorScaled   *)
(* and QualityPercent).                                                    *)
(***************************************************************************)
EXTENDS Integers, Sequences, FiniteSets

VARIABLES
    originalFile,      \* App.jsx:4   the selected File (its name), or NoFile
    originalImageUrl,  \* App.jsx:5   the file whose data URL it is, or NoFile
    compressedImage,   \* App.jsx:6   data URL of the encoded canvas, or Null
    loading,           \* App.jsx:7
    error,             \* App.jsx:8   a message, or NoError
    imageQuality,      \* App.jsx:9   in tenths
    imageDimensions,   \* App.jsx:10
    runs,              \* the runs of processImage whose callbacks are pending,
                       \* in the order they were started
    download,          \* the last download handleDownloadCompressed produced
    inputs,            \* number of user events so far
    lastInput,         \* history: the last file selection or parameter change
    img,               \* the decoded image and maxWidth compressImage is probed with
    canvas             \* the canvas size compressImage derived for img

vars == <<originalFile, originalImageUrl, compressedImage, loading, error,
          imageQuality, imageDimensions, runs, download, inputs, lastInput,
          img, canvas>>

appVars == <<originalFile, originalImageUrl, compressedImage, loading, error,
             imageQuality, imageDimensions, runs, download, inputs, lastInput>>

-----------------------------------------------------------------------------
(* Bounds of the model *)

\* user events (file selections and parameter changes) in one behaviour
MaxInputs == 3
\* the user picks among the first NumQualityChoices options of the quality list
NumQualityChoices == 1
\* the user picks among the first NumDimensionChoices options of the width list
NumDimensionChoices == 1
\* probed image widths lie within MaxDelta of an option of the width list
MaxDelta == 64
\* probed image heights are 1..MaxImgHeight
MaxImgHeight == 150

-----------------------------------------------------------------------------
(* Values *)

Null == [tag |-> "null"]
NoFile == "null"
NoError == "null"

\* <option value={...}> of the quality select, in list order, in tenths
QualityOptions == <<10, 9, 8, 7, 6, 5, 4, 3, 2, 1>>
\* <option value={...}> of the width select, in list order
DimensionOptions == <<400, 800, 1200, 1600, 2000>>

DefaultQuality == 7
DefaultDimensions == 800

SeqRange(s) == {s[i] : i \in 1..Len(s)}
Min(a, b) == IF a < b THEN a ELSE b

\* strings the code inspects are sequences of characters
ImagePrefix == <<"i", "m", "a", "g", "e", "/">>
JpegType == ImagePrefix \o <<"j", "p", "e", "g">>
PngType == ImagePrefix \o <<"p", "n", "g">>
TextType == <<"t", "e", "x", "t", "/", "p", "l", "a", "i", "n">>

\* String.prototype.startsWith
StartsWith(s, p) == Len(s) >= Len(p) /\ SubSeq(s, 1, Len(p)) = p

\* the files the user can pick, by name: type is File.type; decodable says
\* whether the browser's image decoder accepts the bytes; width, height are the
\* intrinsic size
Photo == [type |-> JpegType, decodable |-> TRUE, width |-> 1600, height |-> 1200]
Icon == [type |-> PngType, decodable |-> TRUE, width |-> 300, height |-> 200]
Corrupt == [type |-> PngType, decodable |-> FALSE, width |-> 0, height |-> 0]
Notes == [type |-> TextType, decodable |-> FALSE, width |-> 0, height |-> 0]
FileInfo == [photo |-> Photo, icon |-> Icon, corrupt |-> Corrupt, notes |-> Notes]
Files == DOMAIN FileInfo

MsgNoFile == "Please select an image file."
MsgNotAnImage == "The selected file is not an image. Please upload an image (e.g., JPEG, PNG)."
MsgReadFailed == "Failed to read the file."
MsgDecodeFailed == "Failed to load image for compression."

-----------------------------------------------------------------------------
(* Floating point, App.jsx:25 and App.jsx:108 *)

RECURSIVE Pow2(_)
Pow2(n) == IF n = 0 THEN 1 ELSE 2 * Pow2(n - 1)

\* 2^n mod m, by repeated squaring (m < 2^15)
RECURSIVE Pow2Mod(_, _)
Pow2Mod(n, m) ==
    IF n = 0 THEN 1 % m
    ELSE LET half == Pow2Mod(n \div 2, m)
         IN  (half * half * (IF n % 2 = 1 THEN 2 ELSE 1)) % m

\* the least g >= from with a * 2^g >= b
RECURSIVE ScaleUp(_, _, _)
ScaleUp(a, b, from) == IF a * Pow2(from) >= b THEN from ELSE ScaleUp(a, b, from + 1)

\* floor(log2(n)), n >= 1
RECURSIVE Log2(_)
Log2(n) == IF n < 2 THEN 0 ELSE 1 + Log2(n \div 2)

\* The double a/b of two integers 0 < a < b is M / 2^s with s = 52 + g,
\* 2^-g <= a/b < 2^(1-g), and M the integer nearest a * 2^s / b.  RatioError is
\* M * b - a * 2^s: negative when the double lies below a/b.  (A tie cannot
\* occur: a/b would then be a dyadic rational and M exact.)
RatioExponent(a, b) == ScaleUp(a, b, 1)
RatioError(a, b) ==
    LET rho == (a * Pow2Mod(52 + RatioExponent(a, b), b)) % b
    IN  IF 2 * rho <= b THEN 0 - rho ELSE b - rho

\* Math.floor(h * (a / b)) in binary64, for integers 0 < a < b and h >= 1 small
\* enough that h * b < 2^31.  With q = floor(h*a/b): the product is
\* q + (h*a mod b)/b + h*r/(b*2^s), r the ratio's error.  It rounds below the
\* integer q only when h*a/b is exactly q, r < 0, and h*|r|/(b*2^s) exceeds half
\* the spacing of the doubles just below q.
DoubleFloorScaled(h, a, b) ==
    LET g == RatioExponent(a, b)
        r == RatioError(a, b)
        q == (h * a) \div b
        t == (h * a) % b
        e == IF q = Pow2(Log2(q)) THEN Log2(q) - 1 ELSE Log2(q)
    IN  IF t > 0 \/ r >= 0 THEN q
        ELSE IF Pow2(g + e) <= 2 * h /\ 2 * h * (0 - r) > b * Pow2(g + e)
             THEN q - 1
             ELSE q

-----------------------------------------------------------------------------
(* compressImage, App.jsx:12-43 *)

\* the size given to the canvas, App.jsx:21-30
\* a resize that divides in integers before it multiplies
NewHeightIntegerRatio(w, h, maxWidth) ==
    IF w > maxWidth THEN h * (maxWidth \div w) ELSE h
NewHeight(w, h, maxWidth) ==
    IF w > maxWidth THEN DoubleFloorScaled(h, maxWidth, w) ELSE h
\* a resize that always takes the maximum width, upscaling narrow images
NewWidthAlwaysMax(w, h, maxWidth) == maxWidth
NewWidth(w, h, maxWidth) ==
    IF w > maxWidth THEN maxWidth ELSE w

CanvasSize(w, h, maxWidth) ==
    [width |-> NewWidth(w, h, maxWidth), height |-> NewHeight(w, h, maxWidth)]


\* Math.floor(imageQuality * 100) of App.jsx:108, imageQuality the double k/10
QualityPercent(k) == IF k >= 10 THEN 10 * k ELSE DoubleFloorScaled(100, k, 10)

\* the data URL canvas.toDataURL('image/jpeg', quality) returns, App.jsx:29-36:
\* the JPEG encoding, at quality, of the image of url drawn at the canvas size
EncodedCanvas(url, size, quality) ==
    [src |-> url, width |-> size.width, height |-> size.height,
     quality |-> quality]

\* what the promise of compressImage resolves with for a decodable image
compressImage(url, quality, maxWidth) ==
    EncodedCanvas(url, CanvasSize(FileInfo[url].width, FileInfo[url].height, maxWidth),
                  quality)

-----------------------------------------------------------------------------
(* The effect, App.jsx:45-81 *)

\* a run of processImage past readAsDataURL: the closure's file, quality and
\* maxWidth, and which callback it waits for
NewRun(file, quality, maxWidth) ==
    [file |-> file, quality |-> quality, maxWidth |-> maxWidth, stage |-> "reading"]

Remove(s, i) == SubSeq(s, 1, i - 1) \o SubSeq(s, i + 1, Len(s))

\* processImage with the state the handler has just set; handlerError is the
\* value the handler left in error
processImage(file, quality, maxWidth, handlerError) ==
    IF file = NoFile
    THEN /\ compressedImage' = Null
         /\ originalImageUrl' = NoFile
         /\ error' = handlerError
         /\ UNCHANGED <<loading, runs>>
    ELSE /\ error' = NoError
         /\ loading' = TRUE
         /\ runs' = Append(runs, NewRun(file, quality, maxWidth))
         /\ UNCHANGED <<compressedImage, originalImageUrl>>

\* the effect runs after the render a handler caused, when a dependency of
\* App.jsx:81 differs from the previous render; every valid selection is a new
\* File object.  The handler, the render and the effect are one step: React
\* commits the update of a change or click event and flushes its effects before
\* the browser delivers the next event or callback.  The callbacks of a run set
\* no dependency, so they never start the effect.
useEffect(depsChanged, file, quality, maxWidth, handlerError) ==
    IF depsChanged
    THEN processImage(file, quality, maxWidth, handlerError)
    ELSE /\ error' = handlerError
         /\ UNCHANGED <<compressedImage, originalImageUrl, loading, runs>>

-----------------------------------------------------------------------------
(* The handlers, App.jsx:83-121 *)

\* the history variable: which event came last, the file it chose (NoFile for a
\* parameter change or an empty file list), whether compressedImage was empty
\* and whether an error was shown when it came
Record(kind, file) ==
    lastInput' = [kind |-> kind, file |-> file, wasEmpty |-> compressedImage = Null,
                  hadError |-> error # NoError]

\* a type check that lets every file through
IsImageTypeAny(file) == TRUE

\* file.type.startsWith('image/'), App.jsx:92
IsImageType(file) == StartsWith(FileInfo[file].type, ImagePrefix)

\* handleImageUpload: file is event.target.files[0], NoFile when the list is empty
handleImageUpload(file) ==
    /\ inputs < MaxInputs
    /\ inputs' = inputs + 1
    /\ Record("file", file)
    /\ IF file = NoFile
       THEN /\ originalFile' = NoFile
            /\ useEffect(originalFile # NoFile, NoFile, imageQuality, imageDimensions,
                         MsgNoFile)
       ELSE IF ~IsImageType(file)
       THEN /\ originalFile' = NoFile
            /\ useEffect(originalFile # NoFile, NoFile, imageQuality, imageDimensions,
                         MsgNotAnImage)
       ELSE /\ originalFile' = file
            /\ useEffect(TRUE, file, imageQuality, imageDimensions, NoError)
    /\ UNCHANGED <<imageQuality, imageDimensions, download, img, canvas>>

\* event.target.value of a select is the text of the chosen option's value
\* attribute, the number of App.jsx:211-220 and 232-236 converted to a string
Digits == <<"0", "1", "2", "3", "4", "5", "6", "7", "8", "9">>
IsDigit(c, radix) == \E d \in 1..Min(radix, Len(Digits)) : Digits[d] = c
DigitValue(c) == (CHOOSE d \in 1..Len(Digits) : Digits[d] = c) - 1

\* String(n) of an integer n >= 0
RECURSIVE IntegerText(_)
IntegerText(n) ==
    IF n < 10 THEN <<Digits[n + 1]>> ELSE IntegerText(n \div 10) \o <<Digits[(n % 10) + 1]>>

\* String(x) of the double nearest k/10: "1", "0.9", ... (the shortest decimal
\* that reads back as the same double)
TenthsText(k) ==
    IF k % 10 = 0 THEN IntegerText(k \div 10)
    ELSE IntegerText(k \div 10) \o <<".">> \o <<Digits[(k % 10) + 1]>>

QualityOptionValues == [i \in 1..Len(QualityOptions) |-> TenthsText(QualityOptions[i])]
DimensionOptionValues ==
    [i \in 1..Len(DimensionOptions) |-> IntegerText(DimensionOptions[i])]

\* NaN, which no option produces, is written -1
NaN == 0 - 1

\* the number of leading characters of s that are digits of the radix
RECURSIVE DigitPrefix(_, _)
DigitPrefix(s, radix) ==
    IF s # <<>> /\ IsDigit(Head(s), radix) THEN 1 + DigitPrefix(Tail(s), radix) ELSE 0

\* the value of a sequence of digits in the radix
RECURSIVE DigitsValue(_, _)
DigitsValue(s, radix) ==
    IF s = <<>> THEN 0
    ELSE radix * DigitsValue(SubSeq(s, 1, Len(s) - 1), radix) + DigitValue(s[Len(s)])

\* a parseInt that reads every text as octal
ParseIntOctal(s, radix) ==
    IF DigitPrefix(s, 8) = 0 THEN NaN ELSE DigitsValue(SubSeq(s, 1, DigitPrefix(s, 8)), 8)

\* parseInt(s, radix) for an unsigned text: the leading digits, NaN without one
ParseInt(s, radix) ==
    IF DigitPrefix(s, radix) = 0 THEN NaN
    ELSE DigitsValue(SubSeq(s, 1, DigitPrefix(s, radix)), radix)

\* parseFloat(s), in tenths, for an unsigned decimal text with at most one digit
\* after the point: that decimal's nearest double is the double nearest k/10
ParseFloat(s) ==
    LET n == DigitPrefix(s, 10)
        rest == SubSeq(s, n + 1, Len(s))
        frac == IF rest # <<>> /\ Head(rest) = "." THEN DigitPrefix(Tail(rest), 10) ELSE 0
    IN  IF n = 0 /\ frac = 0 THEN NaN
        ELSE 10 * DigitsValue(SubSeq(s, 1, n), 10)
             + (IF frac = 0 THEN 0 ELSE DigitValue(rest[2]))

\* the options the user picks among
QualityChoices ==
    {QualityOptionValues[i] : i \in 1..Min(NumQualityChoices, Len(QualityOptions))}
DimensionChoices ==
    {DimensionOptionValues[i] : i \in 1..Min(NumDimensionChoices, Len(DimensionOptions))}

\* handleQualityChange: value is the chosen option's text; the select fires
\* onChange only for an option other than the current one
handleQualityChange(value) ==
    /\ inputs < MaxInputs
    /\ ParseFloat(value) # imageQuality
    /\ inputs' = inputs + 1
    /\ Record("quality", NoFile)
    /\ imageQuality' = ParseFloat(value)
    /\ useEffect(ParseFloat(value) # imageQuality, originalFile, ParseFloat(value),
                 imageDimensions, error)
    /\ UNCHANGED <<originalFile, imageDimensions, download, img, canvas>>

handleDimensionsChange(value) ==
    /\ inputs < MaxInputs
    /\ ParseInt(value, 10) # imageDimensions
    /\ inputs' = inputs + 1
    /\ Record("dimensions", NoFile)
    /\ imageDimensions' = ParseInt(value, 10)
    /\ useEffect(ParseInt(value, 10) # imageDimensions, originalFile, imageQuality,
                 ParseInt(value, 10), error)
    /\ UNCHANGED <<originalFile, imageQuality, download, img, canvas>>

\* link.download of App.jsx:108
DownloadName(maxWidth, quality) ==
    <<"compressed_image_w", maxWidth, "_q", QualityPercent(quality), ".jpg">>

\* a download handler without the test of compressedImage
handleDownloadUnguarded ==
    /\ download' = [href |-> compressedImage,
                    name |-> DownloadName(imageDimensions, imageQuality)]
    /\ UNCHANGED <<originalFile, originalImageUrl, compressedImage, loading, error,
                   imageQuality, imageDimensions, runs, inputs, lastInput, img, canvas>>

handleDownloadCompressed ==
    /\ IF compressedImage # Null
       THEN download' = [href |-> compressedImage,
                         name |-> DownloadName(imageDimensions, imageQuality)]
       ELSE UNCHANGED download
    /\ UNCHANGED <<originalFile, originalImageUrl, compressedImage, loading, error,
                   imageQuality, imageDimensions, runs, inputs, lastInput, img, canvas>>

-----------------------------------------------------------------------------
(* The callbacks of a run, App.jsx:57-75 and App.jsx:17-41 *)

\* reader.onload up to the await: the preview is set and the decode begins
readerOnLoad(i) ==
    /\ runs[i].stage = "reading"
    /\ originalImageUrl' = runs[i].file
    /\ runs' = [runs EXCEPT ![i].stage = "decoding"]
    /\ UNCHANGED <<originalFile, compressedImage, loading, error, imageQuality,
                   imageDimensions, download, inputs, lastInput, img, canvas>>

\* a reader.onerror that leaves the loading flag set
readerOnErrorKeepsLoading(i) ==
    /\ runs[i].stage = "reading"
    /\ error' = MsgReadFailed
    /\ runs' = Remove(runs, i)
    /\ UNCHANGED <<originalFile, originalImageUrl, compressedImage, loading,
                   imageQuality, imageDimensions, download, inputs, lastInput, img,
                   canvas>>

readerOnError(i) ==
    /\ runs[i].stage = "reading"
    /\ error' = MsgReadFailed
    /\ loading' = FALSE
    /\ runs' = Remove(runs, i)
    /\ UNCHANGED <<originalFile, originalImageUrl, compressedImage, imageQuality,
                   imageDimensions, download, inputs, lastInput, img, canvas>>

\* img.onload, and reader.onload resumed with the resolved promise
imgOnLoad(i) ==
    /\ runs[i].stage = "decoding"
    /\ FileInfo[runs[i].file].decodable
    /\ compressedImage' = compressImage(runs[i].file, runs[i].quality, runs[i].maxWidth)
    /\ loading' = FALSE
    /\ runs' = Remove(runs, i)
    /\ UNCHANGED <<originalFile, originalImageUrl, error, imageQuality,
                   imageDimensions, download, inputs, lastInput, img, canvas>>

\* img.onerror, and reader.onload resumed with the rejected promise
imgOnError(i) ==
    /\ runs[i].stage = "decoding"
    /\ ~FileInfo[runs[i].file].decodable
    /\ error' = MsgDecodeFailed
    /\ compressedImage' = Null
    /\ loading' = FALSE
    /\ runs' = Remove(runs, i)
    /\ UNCHANGED <<originalFile, originalImageUrl, imageQuality,
                   imageDimensions, download, inputs, lastInput, img, canvas>>

-----------------------------------------------------------------------------
(* The application *)

NoProbe == [width |-> 1, height |-> 1, maxWidth |-> DefaultDimensions]

AppInit ==
    /\ originalFile = NoFile
    /\ originalImageUrl = NoFile
    /\ compressedImage = Null
    /\ loading = FALSE
    /\ error = NoError
    /\ imageQuality = DefaultQuality
    /\ imageDimensions = DefaultDimensions
    /\ runs = <<>>
    /\ download = Null
    /\ inputs = 0
    /\ lastInput = [kind |-> "none", file |-> NoFile, wasEmpty |-> TRUE,
                    hadError |-> FALSE]

Init ==
    /\ AppInit
    /\ img = NoProbe
    /\ canvas = Null

SelectFile == \E file \in Files \cup {NoFile} : handleImageUpload(file)
ChangeQuality == \E value \in QualityChoices : handleQualityChange(value)
ChangeDimensions == \E value \in DimensionChoices : handleDimensionsChange(value)
Download == handleDownloadCompressed
ReadDone == \E i \in 1..Len(runs) : readerOnLoad(i)
ReadFailed == \E i \in 1..Len(runs) : readerOnError(i)
DecodeDone == \E i \in 1..Len(runs) : imgOnLoad(i)
DecodeFailed == \E i \in 1..Len(runs) : imgOnError(i)

UserInput == SelectFile \/ ChangeQuality \/ ChangeDimensions

Next ==
    \/ SelectFile
    \/ ChangeQuality
    \/ ChangeDimensions
    \/ Download
    \/ ReadDone
    \/ ReadFailed
    \/ DecodeDone
    \/ DecodeFailed

Spec == Init /\ [][Next]_vars

-----------------------------------------------------------------------------
(* compressImage alone, over a range of image sizes *)

ProbeWidths ==
    {DimensionOptions[i] + d : i \in 1..Len(DimensionOptions), d \in (0 - MaxDelta)..MaxDelta}
ProbeHeights == 1..MaxImgHeight
\* the sizes of the files above are probed too
FileSizes ==
    {<<FileInfo[f].width, FileInfo[f].height>> : f \in {g \in Files : FileInfo[g].decodable}}
ProbeSizes == (ProbeWidths \X ProbeHeights) \cup FileSizes

DimInit ==
    /\ AppInit
    /\ \E size \in ProbeSizes, maxWidth \in SeqRange(DimensionOptions) :
          img = [width |-> size[1], height |-> size[2], maxWidth |-> maxWidth]
    /\ canvas = Null

\* img.onload of App.jsx:17-30 for the probed image
SizeCanvas ==
    /\ canvas = Null
    /\ canvas' = CanvasSize(img.width, img.height, img.maxWidth)
    /\ UNCHANGED <<appVars, img>>

DimNext == SizeCanvas

DimSpec == DimInit /\ [][DimNext]_vars

-----------------------------------------------------------------------------
(* Properties of compressImage, checked under DimSpec *)

Sized == canvas # Null

\* C1: an image wider than maxWidth gets a canvas of width maxWidth and of
\* height floor(h * maxWidth / w), the floor of the exact quotient.
C1_ExactFloorHeight ==
    (Sized /\ img.width > img.maxWidth) =>
        /\ canvas.width = img.maxWidth
        /\ canvas.height = (img.height * img.maxWidth) \div img.width

\* C2: an image no wider than maxWidth (w = maxWidth included) keeps both of
\* its dimensions; it is never upscaled.
C2_NoUpscaling ==
    (Sized /\ img.width <= img.maxWidth) =>
        /\ canvas.width = img.width
        /\ canvas.height = img.height

\* C2's case: the canvas of an image exactly maxWidth wide, and of the
\* 300x200 image at maxWidth 800.
C2_Witness ==
    /\ Sized
    /\ \/ img.width = img.maxWidth /\ img.height > 1
       \/ img = [width |-> 300, height |-> 200, maxWidth |-> 800]
    /\ canvas = [width |-> img.width, height |-> img.height]

\* C3: the canvas is at most maxWidth wide and keeps the aspect ratio up to the
\* rounding of the height: with canvas W x H, 0 <= h*W - H*w < w.
C3_WidthCapAndAspect ==
    Sized =>
        /\ canvas.width <= img.maxWidth
        /\ 0 <= img.height * canvas.width - canvas.height * img.width
        /\ img.height * canvas.width - canvas.height * img.width < img.width

-----------------------------------------------------------------------------
(* Properties of the application, checked under Spec *)

NonImage(file) == ~StartsWith(FileInfo[file].type, ImagePrefix)

\* the step in which handleImageUpload rejects a file of another type
NotAnImageRaised == \E file \in Files : NonImage(file) /\ handleImageUpload(file)

\* C4: every error resets the derived output: right after NotAnImage (and the
\* effect it triggers), FileReadError or DecodeError has been handled,
\* compressedImage is null, whatever it held before.
C4_ErrorsResetOutput ==
    [][(NotAnImageRaised \/ ReadFailed \/ DecodeFailed) => compressedImage' = Null]_vars

\* C5: selecting a file whose type does not start with 'image/' sets the
\* NotAnImage message and originalFile to null and starts no run, and no read
\* and no decode is ever pending for such a file.
C5_NonImageNeverRead ==
    [][/\ \A file \in Files :
            (NonImage(file) /\ handleImageUpload(file)) =>
                /\ error' = MsgNotAnImage
                /\ originalFile' = NoFile
                /\ runs' = runs
       /\ \A i \in 1..Len(runs') : ~NonImage(runs'[i].file)]_vars

\* C5's case: a file of type text/plain has just been selected while a run of
\* an earlier image is still pending.
C5_Witness ==
    /\ lastInput.kind = "file"
    /\ lastInput.file = "notes"
    /\ error = MsgNotAnImage
    /\ originalFile = NoFile
    /\ runs # <<>>

\* C6: after an undecodable file of an image type is selected while
\* compressedImage is empty, compressedImage stays null until the next file
\* selection or parameter change, and once every callback has fired without a
\* read failure the error is the DecodeError message.
C6_CorruptKeepsOutputEmpty ==
    (/\ lastInput.kind = "file"
     /\ lastInput.file # NoFile
     /\ ~NonImage(lastInput.file)
     /\ ~FileInfo[lastInput.file].decodable
     /\ lastInput.wasEmpty) =>
        /\ compressedImage = Null
        /\ (runs = <<>> /\ error # MsgReadFailed) => error = MsgDecodeFailed

\* C7: a download's name compressed_image_w{W}_q{Q}.jpg carries the maxWidth W
\* and the quality Q/100 with which the downloaded bytes were encoded.
C7_DownloadNameMatchesEncoding ==
    download # Null =>
        \E q \in SeqRange(QualityOptions) :
            /\ QualityPercent(q) = download.name[4]
            /\ download.href =
                   compressImage(download.href.src, q, download.name[2])

\* C8: when no run is in flight and originalFile is a decodable image (and no
\* read has failed), compressedImage is the pipeline's result for the current
\* originalFile, imageQuality and imageDimensions.
C8_OutputTracksInputs ==
    (/\ runs = <<>>
     /\ originalFile # NoFile
     /\ FileInfo[originalFile].decodable
     /\ error = NoError) =>
        compressedImage = compressImage(originalFile, imageQuality, imageDimensions)

\* C9: at most one run is in flight, and it carries the latest file, quality
\* and maxWidth.
C9_SingleLatestRun ==
    /\ Len(runs) <= 1
    /\ \A i \in 1..Len(runs) :
          /\ runs[i].file = originalFile
          /\ runs[i].quality = imageQuality
          /\ runs[i].maxWidth = imageDimensions

\* C10: while no file is selected (none chosen, or a non-image rejected, and
\* the effect has run), originalImageUrl and compressedImage are null.
C10_NoFileNoImages ==
    originalFile = NoFile => (originalImageUrl = NoFile /\ compressedImage = Null)

-----------------------------------------------------------------------------
(* The selectors with every option, checked under OptionSpec *)

PickQuality ==
    \E i \in 1..Len(QualityOptions) : handleQualityChange(QualityOptionValues[i])
PickDimensions ==
    \E i \in 1..Len(DimensionOptions) : handleDimensionsChange(DimensionOptionValues[i])
SelectImage == handleImageUpload("photo")

OptionNext ==
    \/ PickQuality
    \/ PickDimensions
    \/ SelectImage
    \/ ReadDone
    \/ ReadFailed
    \/ DecodeDone

OptionSpec == Init /\ [][OptionNext]_vars

\* C12: imageQuality is one of the ten quality options and imageDimensions one
\* of the five width options (0.7 and 800 before any change), and every run
\* passes compressImage a quality within [0, 1] and a maxWidth > 0.
C12_ParametersAreOptions ==
    /\ imageQuality \in SeqRange(QualityOptions)
    /\ imageDimensions \in SeqRange(DimensionOptions)
    /\ inputs = 0 => (imageQuality = 7 /\ imageDimensions = 800)
    /\ \A i \in 1..Len(runs) :
          /\ 0 <= runs[i].quality /\ runs[i].quality <= 10
          /\ runs[i].maxWidth > 0

\* C12's case: both selectors have been changed to a non-default option and a
\* run started with the new values is pending.
C12_Witness ==
    /\ imageQuality = 1
    /\ imageDimensions = 2000
    /\ \E i \in 1..Len(runs) : runs[i].quality = 1 /\ runs[i].maxWidth = 2000

-----------------------------------------------------------------------------
(* Further properties of the application, checked under Spec *)

\* C13: while a run started by processImage has a read or a decode pending,
\* loading is true, also when several runs overlap.
C13_LoadingCoversRuns ==
    runs # <<>> => loading

\* C14: when no run is in flight and compressedImage is set, originalImageUrl
\* is set too and is the data URL of the file compressedImage was made from.
C14_PreviewsAgree ==
    (runs = <<>> /\ compressedImage # Null) =>
        (originalImageUrl # NoFile /\ originalImageUrl = compressedImage.src)

\* the seven useState cells
appState == <<originalFile, originalImageUrl, compressedImage, loading, error,
              imageQuality, imageDimensions>>

\* C17: a step that produces a download changes none of originalFile,
\* originalImageUrl, compressedImage, loading, error, imageQuality and
\* imageDimensions, and handleDownloadCompressed produces a download only
\* when compressedImage is set (with compressedImage null, nothing changes).
C17_DownloadChangesNothing ==
    [][/\ download' # download =>
            /\ UNCHANGED appState
            /\ compressedImage # Null
            /\ download'.href = compressedImage
       /\ handleDownloadCompressed =>
            /\ UNCHANGED appState
            /\ compressedImage = Null => UNCHANGED download]_vars

\* C17's case: a download has been produced from the current compressedImage.
C17_Witness ==
    /\ download # Null
    /\ compressedImage # Null
    /\ download.href = compressedImage

-----------------------------------------------------------------------------
(* Further properties of compressImage, checked under DimSpec *)

-----------------------------------------------------------------------------
(* Progress, checked under FairSpec *)

\* the application's steps that change its state: the inputs and the callbacks
\* (handleDownloadCompressed leaves the state as it is)
FairNext ==
    \/ UserInput
    \/ ReadDone
    \/ ReadFailed
    \/ DecodeDone
    \/ DecodeFailed

\* while a FileReader read or an image decode is pending, a success or an
\* error callback eventually fires
FairSpec ==
    /\ Init
    /\ [][FairNext]_vars
    /\ WF_vars(ReadFailed \/ DecodeFailed \/ ReadDone \/ DecodeDone)

\* the last input selected a decodable image file while an error was shown
RetryAfterError ==
    /\ lastInput.kind = "file"
    /\ lastInput.hadError
    /\ lastInput.file # NoFile
    /\ FileInfo[lastInput.file].decodable

\* the result the pipeline gives for the file of the last selection
LastSelectionDone ==
    /\ error = NoError
    /\ loading = FALSE
    /\ lastInput.file # NoFile
    /\ compressedImage = compressImage(lastInput.file, imageQuality, imageDimensions)

\* C11: when the user's last input selects a decodable image while an error is
\* shown, and no read fails, then at some time after the selection error is
\* null, loading is false and compressedImage is the result for that file.
C11_ErrorsAreNotTerminal ==
    \A n \in 1..MaxInputs :
        <>[](inputs = n /\ RetryAfterError) =>
            <>(inputs = n /\ (LastSelectionDone \/ error = MsgReadFailed))

\* C15: with every read and decode eventually calling back, after the user's
\* last input loading eventually becomes false and stays false.
C15_LoadingEnds ==
    <>[](loading = FALSE)

\* C15's case: runs were started and every one of them has called back.
C15_Witness ==
    /\ inputs > 1
    /\ originalFile # NoFile
    /\ runs = <<>>
    /\ loading = FALSE

=============================================================================
